---------------------------- MODULE Spec2Model ----------------------------
(***************************************************************************)
(* Model of the email-service notification pipeline of                     *)
(* darionnuel/notification-system:                                          *)
(*   - app/utils/retry.py                  retry_with_backoff (SpecRetry)   *)
(*   - app/core/async_circuit_breaker.py   AsyncCircuitBreaker (SpecCB)     *)
(*   - app/services/email_service.py       process_notification (Spec)     *)
(*   - app/api/email.py                    send_email, retry (SpecApi)     *)
(*   - app/services/queue_service.py       consume_emails (SpecQueue)      *)
(* The service runs on one asyncio event loop: code between two awaits     *)
(* that suspend is one atomic step, and every action below is one such     *)
(* stretch of code.                                                        *)
(***************************************************************************)
EXTENDS Integers, Sequences, FiniteSets, TLC

VARIABLES
    \* ---- retry_with_backoff (app/utils/retry.py) ----
    r_pc,            \* "call" | "sleep" | "returned" | "raised" | "off"
    r_sync,          \* TRUE: retry_sync_with_backoff, FALSE: retry_with_backoff
    r_max_arg,       \* the max_attempts argument as passed (None or a number)
    r_base_arg,      \* the backoff_base argument as passed (None or a number)
    max_attempts,    \* the local max_attempts after line 30
    backoff_base,    \* the local backoff_base after line 31
    attempt,         \* the loop variable
    last_exception,  \* the local last_exception
    r_calls,         \* number of times func was invoked
    r_sleeps,        \* the sleeps taken, in order
    r_errs,          \* the errors raised by the attempts, in order
    r_result,        \* what the function returned or raised
    \* ---- AsyncCircuitBreaker (app/core/async_circuit_breaker.py) ----
    now,             \* time.time()
    cb,              \* the breaker: state, failure_count, last_failure_time,
                     \* failure_threshold, timeout
    cb_pc,           \* per caller of call(): "idle" | "running" | "returned"
                     \* | "raised" | "denied"
    cb_admitted,     \* per caller: the breaker state its operation was
                     \* invoked in (history)
    cb_due,          \* per caller: at entry the breaker had seen
                     \* failure_threshold consecutive failures and the
                     \* recovery timeout had not elapsed (history)
    cb_consec,       \* failed calls since the last success or reset,
                     \* counted up to failure_threshold (history)
    cb_last,         \* the last operation on the breaker: its kind, the
                     \* state before it and its time (history)
    \* ---- process_notification (app/services/email_service.py) ----
    email_logs,      \* the email_logs table: the rows, in insertion order
    status_events,   \* the status messages published, in order
    p_pc,            \* per call: "idle" | "user_fetch" | "user_sleep" |
                     \* "pref_fetch" | "publish_sending" | "tmpl_sleep" |
                     \* "returned" | "raised"
    p_rid,           \* per call: request.request_id
    p_meta,          \* per call: request.metadata carries recipient_email
    p_orig,          \* per call made by retry_failed_email: the row it
                     \* retries (0: not a retry)
    services,        \* how the Template Service and the email provider
                     \* answer the requests they receive during the run
    p_attempt,       \* per call: the loop variable of the running retry loop
    p_log,           \* per call: the row it holds as email_log / existing
                     \* (0: none)
    p_out,           \* per call: how it ended
    p_existed,       \* per call: a row with its request_id existed when it
                     \* was called (history)
    p_with,          \* per call: the calls with the same request_id that
                     \* were in flight together with it (history)
    p_denied,        \* per call: an attempt of its user-fetch retry loop was
                     \* refused by the breaker (history)
    p_inserting,     \* per call: it reached db.add / db.commit of its row
                     \* (history)
    p_did,           \* per call: the service requests, publishes and
                     \* database writes it has made (history)
    p_user_pref,     \* per call: preferences.email_enabled in the user data
                     \* that its user-fetch loop obtained: "none" |
                     \* "enabled" | "disabled" (history)
    send_entries,    \* per request_id: the calls that entered _send_email,
                     \* the only caller of smtp_service.send_email (history)
    \* ---- consume_emails (app/services/queue_service.py) ----
    q_body,          \* per message of the email queue: what its body is
                     \* ("none": not published yet)
    q_pc,            \* per message: "none" | "queued" | "handling" |
                     \* "dead_lettering" | "acked" | "rejected"
    q_err,           \* per message: the exception that left process_message
    q_handled,       \* per message: the times the callback was called with it
    dead_letters,    \* the messages published by publish_to_failed_queue,
                     \* in order
    \* ---- SMTPService (app/services/smtp_service.py) ----
    smtp_settings,   \* settings.email_provider, settings.sendgrid_api_key,
                     \* settings.circuit_breaker_failure_threshold
    provider_breakers, \* smtp_circuit_breaker and sendgrid_circuit_breaker
    s_pc,            \* per caller of send_email: "idle" | "sending"
    s_override,      \* per caller: the provider argument of its last call
    s_via,           \* per caller: the provider its last call went through
    s_out,           \* per caller: how its last call ended: "none" | "sent" |
                     \* "failed" | "refused"
    s_calls,         \* per provider: the sends made through it (history)
    s_failed,        \* per provider: the failed sends through it since its
                     \* last successful one (history)
    \* ---- the service process (app/main.py) ----
    restarts,        \* the times the process was interrupted and restarted
    \* ---- check_email_preference (app/services/user_client.py) ----
    pr_pc,           \* per caller: "idle" | "fetching"
    pr_fetched,      \* per caller: what the fetch of its last call came to:
                     \* "none" | "refused" | "failed" | "enabled" |
                     \* "disabled" | "absent"
    pr_returned      \* per caller: what its last call returned: "none" |
                     \* "True" | "False"

retryVars == <<r_pc, r_sync, r_max_arg, r_base_arg, max_attempts, backoff_base,
               attempt, last_exception, r_calls, r_sleeps, r_errs, r_result>>

cbHist == <<cb_pc, cb_admitted, cb_due, cb_consec, cb_last>>

cbVars == <<now, cb, cbHist>>

pipeVars == <<email_logs, status_events, services, p_pc, p_rid, p_meta, p_orig,
              p_attempt, p_log, p_out,
              p_existed, p_with, p_denied, p_inserting, p_did, send_entries,
              p_user_pref>>

queueVars == <<q_body, q_pc, q_err, q_handled, dead_letters>>

smtpVars == <<smtp_settings, provider_breakers, s_pc, s_override, s_via, s_out,
              s_calls, s_failed>>

prefVars == <<pr_pc, pr_fetched, pr_returned>>

vars == <<retryVars, cbVars, pipeVars, queueVars, smtpVars, restarts, prefVars>>

(***************************************************************************)
(* Bounds of the model.                                                    *)
(***************************************************************************)
MaxAttempts == 4
MaxBase == 2
NumCallers == 2
MaxThreshold == 2
MaxTimeout == 2
MaxNow == 4
NumCalls == 2
NumRids == 2
MaxIdlePeriods == 1
NumApiCalls == 1
NumApiRids == 1
NumMsgs == 3
PrefetchCount == 2
NumSenders == 2
MaxSends == 3
NumConsumers == 1
MaxRestarts == 1

(***************************************************************************)
(* Python values.                                                          *)
(***************************************************************************)
None == -1
NoErr == "none"
Errors == {"E1", "E2"}

\* Python's `x or d`: d when x is None or 0.
PyOr(x, d) == IF x = None \/ x = 0 THEN d ELSE x

RECURSIVE Pow2(_)
Pow2(n) == IF n <= 0 THEN 1 ELSE 2 * Pow2(n - 1)

(***************************************************************************)
(* app/core/config.py                                                      *)
(***************************************************************************)
retry_max_attempts == 3
retry_backoff_seconds == 2

(***************************************************************************)
(* app/utils/retry.py                                                      *)
(***************************************************************************)
\* Mutant of wait_time: the exponent is off by one.
wait_time_next_exponent(k, base) == Pow2(k + 1) * base

\* wait_time = (2 ** attempt) * backoff_base
wait_time(k, base) == Pow2(k) * base

\* Mutant of record_exception: the first error is kept.
record_exception_first(prev, e) == IF prev = NoErr THEN e ELSE prev

\* last_exception = e
record_exception(prev, e) == e

\* Mutant of sleeps_after: the loop also sleeps after the last attempt.
sleeps_after_always(k, n) == TRUE

\* if attempt < max_attempts - 1
sleeps_after(k, n) == k < n - 1


(***************************************************************************)
(* app/core/async_circuit_breaker.py                                       *)
(* The lock of the breaker is held only over code that does not await, so  *)
(* on the one event loop it is always free when it is asked for: the       *)
(* locked region of call(), _on_success(), _on_failure() and reset() is    *)
(* each one step, and the wrapped operation runs between two steps.        *)
(***************************************************************************)
CLOSED == "closed"
OPEN == "open"
HALF_OPEN == "half_open"

Callers == 1..NumCallers

\* __init__
AsyncCircuitBreaker(failure_threshold, timeout) ==
    [state |-> CLOSED,
     failure_count |-> 0,
     last_failure_time |-> None,
     failure_threshold |-> PyOr(failure_threshold, 5),
     timeout |-> PyOr(timeout, 60)]

\* _should_attempt_reset
should_attempt_reset(b, t) ==
    IF b.last_failure_time = None THEN FALSE
    ELSE (t - b.last_failure_time) >= b.timeout

\* Mutant of _time_until_reset: the whole timeout, whatever has elapsed.
time_until_reset_whole(b, t) ==
    IF b.last_failure_time = None THEN 0 ELSE b.timeout

\* _time_until_reset
time_until_reset(b, t) ==
    IF b.last_failure_time = None THEN 0
    ELSE IF b.timeout - (t - b.last_failure_time) > 0
         THEN b.timeout - (t - b.last_failure_time) ELSE 0

\* The locked region of call(): TRUE when the call is refused.
call_refused(b, t) == b.state = OPEN /\ ~should_attempt_reset(b, t)

\* The locked region of call(): the breaker after it, when not refused.
call_admit(b, t) ==
    IF b.state = OPEN /\ should_attempt_reset(b, t)
    THEN [b EXCEPT !.state = HALF_OPEN]
    ELSE b

\* _on_success
on_success(b) == [b EXCEPT !.failure_count = 0, !.state = CLOSED]

\* Mutant of on_failure: the circuit opens one failure late.
on_failure_late(b, t) ==
    LET n == b.failure_count + 1 IN
    [b EXCEPT !.failure_count = n,
              !.last_failure_time = t,
              !.state = IF n > b.failure_threshold THEN OPEN ELSE b.state]

\* Mutant of on_failure: a failed trial leaves the breaker half open.
on_failure_closed_only(b, t) ==
    LET n == b.failure_count + 1 IN
    [b EXCEPT !.failure_count = n,
              !.last_failure_time = t,
              !.state = IF n >= b.failure_threshold /\ b.state = CLOSED
                        THEN OPEN ELSE b.state]

\* _on_failure
on_failure(b, t) ==
    LET n == b.failure_count + 1 IN
    [b EXCEPT !.failure_count = n,
              !.last_failure_time = t,
              !.state = IF n >= b.failure_threshold THEN OPEN ELSE b.state]

\* Mutant of reset: the circuit is closed, the failure count is kept.
reset_state_only(b) == [b EXCEPT !.state = CLOSED]

\* reset
reset(b) ==
    [b EXCEPT !.failure_count = 0, !.last_failure_time = None, !.state = CLOSED]

\* History: one more failed call, counted up to the threshold.
MoreConsec(n, b) == IF n < b.failure_threshold THEN n + 1 ELSE n

\* History: the claim's precondition of a fast failure.
FastFailDue(n, b, t) ==
    /\ n >= b.failure_threshold
    /\ b.last_failure_time # None
    /\ t - b.last_failure_time < b.timeout

\* History: an operation on the breaker; for a refusal, the time_left that
\* the error of line 81 carries.
Event(kind, b, t) ==
    [kind |-> kind, pre |-> b.state, at |-> t,
     time_left |-> IF kind = "refuse" THEN time_until_reset(b, t) ELSE None]


(***************************************************************************)
(* app/models/email_log.py, app/services/email_service.py                  *)
(*                                                                         *)
(* A call of process_notification comes from the queue consumer            *)
(* (main.py:35), from POST /send (api/email.py:99) or from the retry       *)
(* endpoint (api/email.py:246); each has its own database session.  The    *)
(* database calls are synchronous, so a call runs without interruption     *)
(* from one network await (user fetch, asyncio.sleep, queue publish) to    *)
(* the next.                                                               *)
(***************************************************************************)
Calls == 1..NumCalls
\* request_id values: <<n>> is the id of notification n as first submitted,
\* Append(r, k) is f"{r}_retry_{k}".
Rids == {<<n>> : n \in 1..NumRids}

\* The ids retry_failed_email derives from a row (retry_count is 0 or 1).
RetryRids == {Append(r, k) : r \in Rids, k \in 1..2}

AllRids == Rids \cup RetryRids

\* The callers and the request ids of the HTTP API (SpecApi).
ApiCalls == 1..NumApiCalls
ApiRids == {<<n>> : n \in 1..NumApiRids}

\* The notification_id of the request with request_id r.
notification_id(r) == r[1]

PENDING == "pending"
SENDING == "sending"
SENT == "sent"
FAILED == "failed"

\* EmailLog(...): the column defaults and the fields the caller sets.
\* history is not a column: it lists the statuses the row has had.
EmailLog(r, status, error_message) ==
    [request_id |-> r,
     notification_id |-> notification_id(r),
     status |-> status,
     error_message |-> error_message,
     retry_count |-> 0,
     sent_at |-> FALSE,
     delivered_at |-> FALSE,
     failed_at |-> FALSE,
     history |-> <<status>>]

\* Mutant of first_by_request_id: the query never finds the row.
first_by_request_id_none(logs, r) == 0

\* db.query(EmailLog).filter(EmailLog.request_id == r).first(): the index of
\* the row, 0 for None.
first_by_request_id(logs, r) ==
    IF \E i \in DOMAIN logs : logs[i].request_id = r
    THEN CHOOSE i \in DOMAIN logs :
            /\ logs[i].request_id = r
            /\ \A j \in DOMAIN logs : logs[j].request_id = r => i <= j
    ELSE 0

\* EmailService.get_email_log: the first row of the notification, 0 for None.
get_email_log(logs, n) ==
    IF \E i \in DOMAIN logs : logs[i].notification_id = n
    THEN CHOOSE i \in DOMAIN logs :
            /\ logs[i].notification_id = n
            /\ \A j \in DOMAIN logs : logs[j].notification_id = n => i <= j
    ELSE 0

\* api/email.py line 230: f"{email_log.request_id}_retry_{email_log.retry_count + 1}"
retry_request_id(row) == Append(row.request_id, row.retry_count + 1)

\* Mutant of unique_violation: the column is not declared unique.
unique_violation_never(logs, r) == FALSE

\* request_id = Column(String(255), unique=True, ...): db.commit() of a new
\* row raises IntegrityError when a row with the request_id exists.
unique_violation(logs, r) == \E i \in DOMAIN logs : logs[i].request_id = r

\* Mutant of update_email_status: the error message is not stored.
update_email_status_drops_error(row, status, error_message) ==
    [row EXCEPT !.status = status,
                !.history = Append(@, status),
                !.sent_at = @ \/ status = SENDING,
                !.delivered_at = @ \/ status = SENT,
                !.failed_at = @ \/ status = FAILED]

\* _update_email_status
update_email_status(row, status, error_message) ==
    LET a == [row EXCEPT !.status = status, !.history = Append(@, status)]
        b == IF error_message # NoErr
             THEN [a EXCEPT !.error_message = error_message,
                            !.retry_count = a.retry_count + 1]
             ELSE a
    IN  IF status = SENDING THEN [b EXCEPT !.sent_at = TRUE]
        ELSE IF status = SENT THEN [b EXCEPT !.delivered_at = TRUE]
        ELSE IF status = FAILED THEN [b EXCEPT !.failed_at = TRUE]
        ELSE b

\* template_client.get_template_by_code ends in
\* `return self.circuit_breaker.call(await fetch)`: fetch is the nested
\* function itself, not a call of it, and awaiting a function object raises
\* TypeError before any request is sent and before the breaker is reached.
\* render_email_template therefore raises on every attempt.
render_email_template == "TypeError"

\* The UserService breaker of user_client.
UserServiceBreaker == AsyncCircuitBreaker(3, 30)

InFlight(c) ==
    p_pc[c] \in {"user_fetch", "user_sleep", "pref_fetch", "publish_sending",
                 "tmpl_sleep"}

\* dispatch counts the calls of smtp_service.send_email (email_service.py
\* line 248), which no request reaches in this build.
NoneDone == [user |-> 0, template |-> 0, dispatch |-> 0, publish |-> 0,
             write |-> 0]

Did(c, what) == [p_did EXCEPT ![c][what] = p_did[c][what] + 1]

PipeStart ==
    /\ email_logs = <<>>
    /\ status_events = <<>>
    /\ p_pc = [c \in Calls |-> "idle"]
    /\ p_rid = [c \in Calls |-> <<1>>]
    /\ p_meta = [c \in Calls |-> FALSE]
    /\ p_orig = [c \in Calls |-> 0]
    /\ p_attempt = [c \in Calls |-> 0]
    /\ p_log = [c \in Calls |-> 0]
    /\ p_out = [c \in Calls |-> "none"]
    /\ p_existed = [c \in Calls |-> FALSE]
    /\ p_with = [c \in Calls |-> {}]
    /\ p_denied = [c \in Calls |-> FALSE]
    /\ p_inserting = [c \in Calls |-> FALSE]
    /\ p_did = [c \in Calls |-> NoneDone]
    /\ send_entries = [r \in AllRids |-> 0]
    /\ p_user_pref = [c \in Calls |-> "none"]

\* The Template Service and the provider answer every request they receive.
ServicesUp == services = [template |-> "up", provider |-> "up"]

\* process_notification is not running (SpecRetry, SpecCB).
PipeOff == PipeStart /\ ServicesUp

\* No caller has called yet.
CbCallersIdle ==
    /\ cb_pc = [c \in Callers |-> "idle"]
    /\ cb_admitted = [c \in Callers |-> CLOSED]
    /\ cb_due = [c \in Callers |-> FALSE]
    /\ cb_consec = 0
    /\ cb_last = [kind |-> "init", pre |-> CLOSED, at |-> 0,
                  time_left |-> None]

\* A breaker as constructed with any of the bounded arguments.
CbStart ==
    /\ now = 0
    /\ \E th \in 1..MaxThreshold, to \in 1..MaxTimeout :
          cb = AsyncCircuitBreaker(th, to)
    /\ CbCallersIdle

\* call(), lines 74-84, refused: the circuit-open error is raised and func is
\* not invoked.
CbCallRefused(c) ==
    /\ cb_pc[c] # "running"
    /\ call_refused(cb, now)
    /\ cb_pc' = [cb_pc EXCEPT ![c] = "denied"]
    /\ cb_due' = [cb_due EXCEPT ![c] = FastFailDue(cb_consec, cb, now)]
    /\ cb_last' = Event("refuse", cb, now)
    /\ UNCHANGED <<now, cb, cb_admitted, cb_consec>>
    /\ UNCHANGED <<retryVars, pipeVars, queueVars, smtpVars, restarts, prefVars>>

\* call(), lines 74-87, admitted: func is invoked and the caller awaits it.
CbCallAdmitted(c) ==
    /\ cb_pc[c] # "running"
    /\ ~call_refused(cb, now)
    /\ cb' = call_admit(cb, now)
    /\ cb_pc' = [cb_pc EXCEPT ![c] = "running"]
    /\ cb_admitted' = [cb_admitted EXCEPT ![c] = cb'.state]
    /\ cb_due' = [cb_due EXCEPT ![c] = FastFailDue(cb_consec, cb, now)]
    /\ cb_last' = Event("admit", cb, now)
    /\ UNCHANGED <<now, cb_consec>>
    /\ UNCHANGED <<retryVars, pipeVars, queueVars, smtpVars, restarts, prefVars>>

\* call(), lines 87-89: func returned, _on_success().
CbCallSucceeds(c) ==
    /\ cb_pc[c] = "running"
    /\ cb' = on_success(cb)
    /\ cb_pc' = [cb_pc EXCEPT ![c] = "returned"]
    /\ cb_consec' = 0
    /\ cb_last' = Event("success", cb, now)
    /\ UNCHANGED <<now, cb_admitted, cb_due>>
    /\ UNCHANGED <<retryVars, pipeVars, queueVars, smtpVars, restarts, prefVars>>

\* call(), lines 90-92: func raised, _on_failure(), the error is re-raised.
CbCallFails(c) ==
    /\ cb_pc[c] = "running"
    /\ cb' = on_failure(cb, now)
    /\ cb_pc' = [cb_pc EXCEPT ![c] = "raised"]
    /\ cb_consec' = MoreConsec(cb_consec, cb)
    /\ cb_last' = Event("failure", cb, now)
    /\ UNCHANGED <<now, cb_admitted, cb_due>>
    /\ UNCHANGED <<retryVars, pipeVars, queueVars, smtpVars, restarts, prefVars>>

\* reset()
CbReset ==
    /\ cb' = reset(cb)
    /\ cb_consec' = 0
    /\ cb_last' = Event("reset", cb, now)
    /\ UNCHANGED <<now, cb_pc, cb_admitted, cb_due>>
    /\ UNCHANGED <<retryVars, pipeVars, queueVars, smtpVars, restarts, prefVars>>

\* A second passes.
CbTick ==
    /\ now < MaxNow
    /\ now' = now + 1
    /\ UNCHANGED <<cb, cb_pc, cb_admitted, cb_due, cb_consec, cb_last>>
    /\ UNCHANGED <<retryVars, pipeVars, queueVars, smtpVars, restarts, prefVars>>

NextCB ==
    \/ \E c \in Callers : CbCallRefused(c)
    \/ \E c \in Callers : CbCallAdmitted(c)
    \/ \E c \in Callers : CbCallSucceeds(c)
    \/ \E c \in Callers : CbCallFails(c)
    \/ CbReset
    \/ CbTick

\* The breaker is not in use (SpecRetry).
CbOff ==
    /\ now = 0
    /\ cb = AsyncCircuitBreaker(None, None)
    /\ CbCallersIdle

\* retry_with_backoff has been called; the arguments are any of the bounded ones.
RetryStart ==
    /\ r_pc = "call"
    /\ r_sync \in BOOLEAN
    /\ r_max_arg \in {None} \cup (0..MaxAttempts)
    /\ r_base_arg \in {None} \cup (0..MaxBase)
    /\ max_attempts = PyOr(r_max_arg, retry_max_attempts)
    /\ backoff_base = PyOr(r_base_arg, retry_backoff_seconds)
    /\ attempt = 0
    /\ last_exception = NoErr
    /\ r_calls = 0
    /\ r_sleeps = <<>>
    /\ r_errs = <<>>
    /\ r_result = NoErr

\* The retry machinery is not running (the other specifications).
RetryOff ==
    /\ r_pc = "off"
    /\ r_sync = FALSE
    /\ r_max_arg = None
    /\ r_base_arg = None
    /\ max_attempts = 0
    /\ backoff_base = 0
    /\ attempt = 0
    /\ last_exception = NoErr
    /\ r_calls = 0
    /\ r_sleeps = <<>>
    /\ r_errs = <<>>
    /\ r_result = NoErr

\* One pass of the loop body in which func returns: the result is returned.
RetryCallReturns ==
    /\ r_pc = "call"
    /\ attempt < max_attempts
    /\ r_calls' = r_calls + 1
    /\ r_pc' = "returned"
    /\ r_result' = "ok"
    /\ UNCHANGED <<r_sync, r_max_arg, r_base_arg, max_attempts, backoff_base,
                   attempt, last_exception, r_sleeps, r_errs>>
    /\ UNCHANGED <<cbVars, pipeVars, queueVars, smtpVars, restarts, prefVars>>

\* One pass of the loop body in which func raises e: the error is recorded,
\* then the loop sleeps, or (last attempt) falls out to `raise last_exception`.
RetryCallRaises ==
    /\ r_pc = "call"
    /\ attempt < max_attempts
    /\ \E e \in Errors :
        /\ r_calls' = r_calls + 1
        /\ r_errs' = Append(r_errs, e)
        /\ last_exception' = record_exception(last_exception, e)
        /\ IF sleeps_after(attempt, max_attempts)
           THEN /\ r_sleeps' = Append(r_sleeps, wait_time(attempt, backoff_base))
                /\ r_pc' = "sleep"
                /\ UNCHANGED <<attempt, r_result>>
           ELSE /\ IF attempt + 1 < max_attempts
                   THEN /\ r_pc' = "call"
                        /\ r_result' = r_result
                   ELSE /\ r_pc' = "raised"
                        /\ r_result' = last_exception'
                /\ attempt' = attempt + 1
                /\ UNCHANGED r_sleeps
    /\ UNCHANGED <<r_sync, r_max_arg, r_base_arg, max_attempts, backoff_base>>
    /\ UNCHANGED <<cbVars, pipeVars, queueVars, smtpVars, restarts, prefVars>>

\* The sleep returns: the loop moves to the next attempt.
RetryWake ==
    /\ r_pc = "sleep"
    /\ attempt' = attempt + 1
    /\ r_pc' = IF attempt + 1 < max_attempts THEN "call" ELSE "raised"
    /\ r_result' = IF attempt + 1 < max_attempts THEN r_result ELSE last_exception
    /\ UNCHANGED <<r_sync, r_max_arg, r_base_arg, max_attempts, backoff_base,
                   last_exception, r_calls, r_sleeps, r_errs>>
    /\ UNCHANGED <<cbVars, pipeVars, queueVars, smtpVars, restarts, prefVars>>

NextRetry ==
    \/ RetryCallReturns
    \/ RetryCallRaises
    \/ RetryWake


(***************************************************************************)
(* app/services/queue_service.py: consume_emails.process_message with the  *)
(* callback of app/main.py, and publish_to_failed_queue.  message.process() *)
(* of aio_pika acknowledges the message when its block ends and rejects it  *)
(* without requeue when the block raises.                                   *)
(***************************************************************************)
Msgs == 1..NumMsgs

\* What a message body can be: the JSON of a notification request, other
\* JSON, text that is not JSON, bytes that are not UTF-8.
Bodies == {"request", "other_json", "not_json", "not_utf8"}

\* message.body.decode(), line 99 (also lines 115 and 123)
decode(body) == IF body = "not_utf8" THEN "UnicodeDecodeError" ELSE body

\* json.loads(text), line 99
json_loads(text) == IF text = "not_json" THEN "JSONDecodeError" ELSE text

\* process_message, lines 96-125, up to its first await that suspends: where
\* the message is then, the exception that left the block, whether the
\* callback was called, and the error text handed to publish_to_failed_queue.
process_message_outcome(body) ==
    IF decode(body) = "UnicodeDecodeError"
    THEN \* line 99 raises, `except Exception` (line 119) is entered and
         \* message.body.decode() at line 123 raises again
         [pc |-> "rejected", err |-> "UnicodeDecodeError", handled |-> 0,
          error |-> NoErr]
    ELSE IF json_loads(decode(body)) = "JSONDecodeError"
    THEN [pc |-> "dead_lettering", err |-> NoErr, handled |-> 0,
          error |-> "JSON decode error"]
    ELSE IF body = "request"
    THEN \* main.py line 35: await email_service.process_notification
         [pc |-> "handling", err |-> NoErr, handled |-> 1, error |-> NoErr]
    ELSE \* main.py lines 32, 40: EmailNotificationRequest(**message) raises
         \* and the callback swallows it
         [pc |-> "acked", err |-> NoErr, handled |-> 1, error |-> NoErr]

\* The payload of publish_to_failed_queue, lines 190-207; of is the message
\* it was published for (history).
DeadLetter(m, body, error) ==
    [original_message |-> decode(body), error |-> error,
     routing_key |-> "failed.email", of |-> m]

\* The messages delivered and not yet acknowledged or rejected.
Unacked == {m \in Msgs : q_pc[m] \in {"handling", "dead_lettering"}}

\* (mutant) a channel without a prefetch limit.
within_prefetch_unlimited(unacked) == TRUE

\* channel.set_qos(prefetch_count=...), line 34: the broker delivers another
\* message only while fewer than prefetch_count are unacknowledged.
within_prefetch(unacked) == Cardinality(unacked) < PrefetchCount

QueueStart ==
    /\ q_body = [m \in Msgs |-> "none"]
    /\ q_pc = [m \in Msgs |-> "none"]
    /\ q_err = [m \in Msgs |-> NoErr]
    /\ q_handled = [m \in Msgs |-> 0]
    /\ dead_letters = <<>>

\* The consumer is not running (SpecRetry, SpecCB, Spec, SpecApi).
QueueOff == QueueStart

\* A producer publishes a message with routing key email.*.
Enqueue(m, body) ==
    /\ q_pc[m] = "none"
    /\ q_body' = [q_body EXCEPT ![m] = body]
    /\ q_pc' = [q_pc EXCEPT ![m] = "queued"]
    /\ UNCHANGED <<q_err, q_handled, dead_letters>>
    /\ UNCHANGED <<retryVars, cbVars, pipeVars, smtpVars, restarts, prefVars>>

\* The broker delivers a message, at most prefetch_count being unacknowledged
\* (line 34), and process_message runs up to its first suspending await.
ProcessMessage(m) ==
    LET o == process_message_outcome(q_body[m]) IN
    /\ q_pc[m] = "queued"
    /\ within_prefetch(Unacked)
    /\ q_pc' = [q_pc EXCEPT ![m] = o.pc]
    /\ q_err' = [q_err EXCEPT ![m] = o.err]
    /\ q_handled' = [q_handled EXCEPT ![m] = @ + o.handled]
    /\ UNCHANGED <<q_body, dead_letters>>
    /\ UNCHANGED <<retryVars, cbVars, pipeVars, smtpVars, restarts, prefVars>>

\* main.py lines 35-41: process_notification returned or raised; the callback
\* swallows the exception, the block of process_message ends, the message is
\* acknowledged.
HandlerEnds(m, raised) ==
    /\ q_pc[m] = "handling"
    /\ q_pc' = [q_pc EXCEPT ![m] = "acked"]
    /\ UNCHANGED <<q_body, q_err, q_handled, dead_letters>>
    /\ UNCHANGED <<retryVars, cbVars, pipeVars, smtpVars, restarts, prefVars>>

\* publish_to_failed_queue, lines 205-208: the publish returned; the block of
\* process_message ends and the message is acknowledged.
DeadLetterPublished(m) ==
    /\ q_pc[m] = "dead_lettering"
    /\ dead_letters' = Append(dead_letters,
                              DeadLetter(m, q_body[m], "JSON decode error"))
    /\ q_pc' = [q_pc EXCEPT ![m] = "acked"]
    /\ UNCHANGED <<q_body, q_err, q_handled>>
    /\ UNCHANGED <<retryVars, cbVars, pipeVars, smtpVars, restarts, prefVars>>

\* (mutant) a consumer whose rejection puts the message back on the queue.
DeadLetterPublishFails_requeues(m) ==
    /\ q_pc[m] = "dead_lettering"
    /\ q_pc' = [q_pc EXCEPT ![m] = "queued"]
    /\ q_err' = [q_err EXCEPT ![m] = "PublishError"]
    /\ UNCHANGED <<q_body, q_handled, dead_letters>>
    /\ UNCHANGED <<retryVars, cbVars, pipeVars, smtpVars, restarts, prefVars>>

\* publish_to_failed_queue, lines 205-208: the publish raised; the exception
\* leaves the except clause and the block, the message is rejected.
DeadLetterPublishFails(m) ==
    /\ q_pc[m] = "dead_lettering"
    /\ q_pc' = [q_pc EXCEPT ![m] = "rejected"]
    /\ q_err' = [q_err EXCEPT ![m] = "PublishError"]
    /\ UNCHANGED <<q_body, q_handled, dead_letters>>
    /\ UNCHANGED <<retryVars, cbVars, pipeVars, smtpVars, restarts, prefVars>>

NextQueue ==
    \/ \E m \in Msgs, body \in Bodies : Enqueue(m, body)
    \/ \E m \in Msgs : ProcessMessage(m)
    \/ \E m \in Msgs, raised \in BOOLEAN : HandlerEnds(m, raised)
    \/ \E m \in Msgs : DeadLetterPublished(m)
    \/ \E m \in Msgs : DeadLetterPublishFails(m)

(***************************************************************************)
(* app/services/smtp_service.py: SMTPService.send_email with its two       *)
(* breakers of app/core/circuit_breaker.py.  CircuitBreaker is the         *)
(* synchronous class: the same fields and the same _on_success,            *)
(* _on_failure, _should_attempt_reset as AsyncCircuitBreaker, and a call() *)
(* that calls func without awaiting it.                                    *)
(***************************************************************************)
Senders == 1..NumSenders

Providers == {"smtp", "sendgrid"}

\* The values of the provider argument (Optional[str]): None, the empty
\* string, the two provider names, a name that is neither.
ProviderArgs == {"None", "", "smtp", "sendgrid", "mailgun"}

\* x or d, for an Optional[str]
PyStrOr(x, d) == IF x = "None" \/ x = "" THEN d ELSE x

\* The settings send_email and its breakers read (core/config.py).
Settings ==
    [email_provider : Providers,
     sendgrid_api_key : {"None", "SG.key"},
     circuit_breaker_failure_threshold : 1..MaxThreshold,
     circuit_breaker_timeout : {60}]

\* CircuitBreaker.__init__
CircuitBreaker(failure_threshold, timeout, settings) ==
    [state |-> CLOSED,
     failure_count |-> 0,
     last_failure_time |-> None,
     failure_threshold |->
         PyOr(failure_threshold, settings.circuit_breaker_failure_threshold),
     timeout |-> PyOr(timeout, settings.circuit_breaker_timeout)]

\* SMTPService.__init__
SMTPService(settings) ==
    [smtp |-> CircuitBreaker(None, None, settings),
     sendgrid |-> CircuitBreaker(None, None, settings)]

\* send_email, lines 199-212: the provider the call goes through.
selected_provider(provider, settings) ==
    IF /\ PyStrOr(provider, settings.email_provider) = "sendgrid"
       /\ PyStrOr(settings.sendgrid_api_key, "") # ""
    THEN "sendgrid"
    ELSE "smtp"

\* (mutant) one breaker state shared by the providers: a call through one
\* provider is counted on every breaker.
breaker_call_shared(bs, p, t) ==
    [q \in DOMAIN bs |-> on_failure(bs[q], t)]

\* self.<p>_circuit_breaker.call(send), circuit_breaker.py lines 61-74, for
\* a call that is not refused: send is a coroutine function, so func() at
\* line 72 returns a coroutine object without running the body and without
\* raising, and _on_success runs.  The coroutine is awaited by the caller,
\* after call() has returned (smtp_service.py lines 91, 164).
breaker_call(bs, p, t) ==
    [bs EXCEPT ![p] = on_success(call_admit(@, t))]

(***************************************************************************)
(* app/services/user_client.py: check_email_preference, called on the      *)
(* client with its UserService breaker.                                    *)
(***************************************************************************)
\* What the User Service answers about the preference: email_enabled true,
\* false, or no such field.
PrefAnswers == {"enabled", "disabled", "absent"}

\* (mutant) a preference that cannot be determined counts as disabled.
check_email_preference_strict(outcome) ==
    IF outcome = "enabled" THEN "True" ELSE "False"

\* check_email_preference, lines 72-78: what it returns when get_user_by_id
\* was refused by the breaker, failed, or answered.
check_email_preference(outcome) ==
    IF outcome \in {"refused", "failed"}
    THEN "True"                                   \* lines 76-78
    ELSE IF outcome = "absent" THEN "True"        \* line 75, the default
    ELSE IF outcome = "enabled" THEN "True" ELSE "False"

PrefStart ==
    /\ pr_pc = [c \in Callers |-> "idle"]
    /\ pr_fetched = [c \in Callers |-> "none"]
    /\ pr_returned = [c \in Callers |-> "none"]

\* check_email_preference is not called on its own.
PrefOff == PrefStart

\* check_email_preference up to the await of the HTTP request in
\* get_user_by_id (lines 73, 37-41), or to its return when the breaker
\* refuses the call.
CheckEmailPreference(c) ==
    /\ pr_pc[c] = "idle"
    /\ IF call_refused(cb, now)
       THEN /\ pr_fetched' = [pr_fetched EXCEPT ![c] = "refused"]
            /\ pr_returned' = [pr_returned EXCEPT
                                  ![c] = check_email_preference("refused")]
            /\ UNCHANGED <<cb, pr_pc>>
       ELSE /\ cb' = call_admit(cb, now)
            /\ pr_pc' = [pr_pc EXCEPT ![c] = "fetching"]
            /\ pr_fetched' = [pr_fetched EXCEPT ![c] = "none"]
            /\ pr_returned' = [pr_returned EXCEPT ![c] = "none"]
    /\ UNCHANGED <<now, cbHist>>
    /\ UNCHANGED <<retryVars, pipeVars, queueVars, smtpVars, restarts>>

\* The User Service answered: lines 74-75.
PrefUserReturned(c, answer) ==
    /\ pr_pc[c] = "fetching"
    /\ cb' = on_success(cb)
    /\ pr_pc' = [pr_pc EXCEPT ![c] = "idle"]
    /\ pr_fetched' = [pr_fetched EXCEPT ![c] = answer]
    /\ pr_returned' = [pr_returned EXCEPT ![c] = check_email_preference(answer)]
    /\ UNCHANGED <<now, cbHist>>
    /\ UNCHANGED <<retryVars, pipeVars, queueVars, smtpVars, restarts>>

\* The fetch failed: get_user_by_id raises (line 60), lines 76-78.
PrefUserFailed(c) ==
    /\ pr_pc[c] = "fetching"
    /\ cb' = on_failure(cb, now)
    /\ pr_pc' = [pr_pc EXCEPT ![c] = "idle"]
    /\ pr_fetched' = [pr_fetched EXCEPT ![c] = "failed"]
    /\ pr_returned' = [pr_returned EXCEPT
                          ![c] = check_email_preference("failed")]
    /\ UNCHANGED <<now, cbHist>>
    /\ UNCHANGED <<retryVars, pipeVars, queueVars, smtpVars, restarts>>

\* An idle period of the length of the breaker's recovery timeout passes.
PrefTimePasses ==
    /\ now < MaxIdlePeriods * cb.timeout
    /\ now' = now + cb.timeout
    /\ UNCHANGED <<cb, cbHist, retryVars, pipeVars, queueVars, smtpVars,
                   restarts, prefVars>>

NextPref ==
    \/ \E c \in Callers : CheckEmailPreference(c)
    \/ \E c \in Callers, answer \in PrefAnswers : PrefUserReturned(c, answer)
    \/ \E c \in Callers : PrefUserFailed(c)
    \/ PrefTimePasses

\* The process has not been interrupted.
NoRestart == restarts = 0

SmtpStart ==
    /\ smtp_settings \in Settings
    /\ provider_breakers = SMTPService(smtp_settings)
    /\ s_pc = [c \in Senders |-> "idle"]
    /\ s_override = [c \in Senders |-> "None"]
    /\ s_via = [c \in Senders |-> "none"]
    /\ s_out = [c \in Senders |-> "none"]
    /\ s_calls = [p \in Providers |-> 0]
    /\ s_failed = [p \in Providers |-> 0]

\* send_email is not called (SpecRetry, SpecCB, Spec, SpecApi, SpecQueue).
SmtpOff ==
    /\ smtp_settings =
           [email_provider |-> "smtp", sendgrid_api_key |-> "None",
            circuit_breaker_failure_threshold |-> 5,
            circuit_breaker_timeout |-> 60]
    /\ provider_breakers = SMTPService(smtp_settings)
    /\ s_pc = [c \in Senders |-> "idle"]
    /\ s_override = [c \in Senders |-> "None"]
    /\ s_via = [c \in Senders |-> "none"]
    /\ s_out = [c \in Senders |-> "none"]
    /\ s_calls = [p \in Providers |-> 0]
    /\ s_failed = [p \in Providers |-> 0]

\* send_email(provider=...) up to the breaker's answer, through provider p:
\* refused with "Circuit breaker ... is OPEN" (lines 61-69), or admitted.
send_via(c, provider, p) ==
    /\ s_pc[c] = "idle"
    /\ s_calls["smtp"] + s_calls["sendgrid"] < MaxSends
    /\ selected_provider(provider, smtp_settings) = p
    /\ s_override' = [s_override EXCEPT ![c] = provider]
    /\ s_via' = [s_via EXCEPT ![c] = p]
    /\ IF call_refused(provider_breakers[p], now)
       THEN /\ s_out' = [s_out EXCEPT ![c] = "refused"]
            /\ UNCHANGED <<provider_breakers, s_calls>>
       ELSE /\ provider_breakers' = breaker_call(provider_breakers, p, now)
            /\ s_calls' = [s_calls EXCEPT ![p] = @ + 1]
            /\ s_out' = [s_out EXCEPT ![c] = "none"]

\* The awaited send() ends: the provider took the message, or send() raised.
send_ends(c, p, accepted) ==
    /\ s_out' = [s_out EXCEPT ![c] = IF accepted THEN "sent" ELSE "failed"]
    /\ s_failed' = [s_failed EXCEPT ![p] = IF accepted THEN 0 ELSE @ + 1]

\* send_email through SMTP, lines 214-223 and 51-91, up to the await of
\* aiosmtplib.send (line 76), which suspends.
SendViaSmtp(c, provider) ==
    /\ c \in Senders
    /\ send_via(c, provider, "smtp")
    /\ s_pc' = [s_pc EXCEPT ![c] =
                   IF call_refused(provider_breakers["smtp"], now)
                   THEN "idle" ELSE "sending"]
    /\ UNCHANGED <<smtp_settings, s_failed>>
    /\ UNCHANGED <<retryVars, cbVars, pipeVars, queueVars, restarts, prefVars>>

\* aiosmtplib.send returned: send() returns its result (lines 85-89).
SmtpSendReturns(c) ==
    /\ s_pc[c] = "sending"
    /\ s_pc' = [s_pc EXCEPT ![c] = "idle"]
    /\ send_ends(c, s_via[c], TRUE)
    /\ UNCHANGED <<smtp_settings, provider_breakers, s_override, s_via, s_calls>>
    /\ UNCHANGED <<retryVars, cbVars, pipeVars, queueVars, restarts, prefVars>>

\* aiosmtplib.send raised: the exception leaves send() and send_email.
SmtpSendRaises(c) ==
    /\ s_pc[c] = "sending"
    /\ s_pc' = [s_pc EXCEPT ![c] = "idle"]
    /\ send_ends(c, s_via[c], FALSE)
    /\ UNCHANGED <<smtp_settings, provider_breakers, s_override, s_via, s_calls>>
    /\ UNCHANGED <<retryVars, cbVars, pipeVars, queueVars, restarts, prefVars>>

\* send_email through SendGrid, lines 202-211 and 123-164: sg.send (line
\* 154) is a blocking call, send() has no await that suspends, so the call
\* runs to its end in one step.
SendViaSendgrid(c, provider, accepted) ==
    /\ c \in Senders
    /\ send_via(c, provider, "sendgrid")
    /\ UNCHANGED s_pc
    /\ IF call_refused(provider_breakers["sendgrid"], now)
       THEN UNCHANGED s_failed
       ELSE s_failed' = [s_failed EXCEPT !["sendgrid"] =
                            IF accepted THEN 0 ELSE @ + 1]
    /\ UNCHANGED smtp_settings
    /\ UNCHANGED <<retryVars, cbVars, pipeVars, queueVars, restarts, prefVars>>

\* Time passes between two steps, a breaker timeout at a time.
SmtpTimePasses ==
    /\ now < MaxIdlePeriods * smtp_settings.circuit_breaker_timeout
    /\ now' = now + smtp_settings.circuit_breaker_timeout
    /\ UNCHANGED <<cb, cbHist, retryVars, pipeVars, queueVars, smtpVars, restarts, prefVars>>

NextSmtp ==
    \/ \E c \in Senders, provider \in ProviderArgs : SendViaSmtp(c, provider)
    \/ \E c \in Senders, provider \in ProviderArgs, accepted \in BOOLEAN :
           SendViaSendgrid(c, provider, accepted)
    \/ \E c \in Senders : SmtpSendReturns(c)
    \/ \E c \in Senders : SmtpSendRaises(c)
    \/ SmtpTimePasses

\* (mutant) a loop that goes on attempting while the breaker refuses.
UserAttempt_unbounded(b, t, k) ==
    IF call_refused(b, t)
    THEN [cb |-> b, refused |-> TRUE, pc |-> "user_sleep"]
    ELSE [cb |-> call_admit(b, t), refused |-> FALSE, pc |-> "user_fetch"]

(***************************************************************************)
(* process_notification and _send_email, one action per stretch of code    *)
(* between two awaits that suspend.                                        *)
(***************************************************************************)
\* One pass of the user-fetch loop (lines 62-74) up to its await: attempt k
\* calls user_client.get_user_by_id, whose breaker refuses it or lets the
\* request out; a refusal is an exception like any other to the loop.
UserAttempt(b, t, k) ==
    IF call_refused(b, t)
    THEN [cb |-> b, refused |-> TRUE,
          pc |-> IF k < 2 THEN "user_sleep" ELSE "raised"]
    ELSE [cb |-> call_admit(b, t), refused |-> FALSE, pc |-> "user_fetch"]

\* Mutant of Admission: the row of a denied preference is added as PENDING
\* and then updated to FAILED.
Admission_pending_then_failed(logs, r, enabled) ==
    LET row == update_email_status(
                   EmailLog(r, PENDING, NoErr),
                   IF enabled THEN SENDING ELSE FAILED,
                   IF enabled THEN NoErr
                   ELSE "User has email notifications disabled")
    IN  IF unique_violation(logs, r)
        THEN [ok |-> FALSE, logs |-> logs, idx |-> 0]
        ELSE [ok |-> TRUE, logs |-> Append(logs, row), idx |-> Len(logs) + 1]

\* Mutant of Admission: the answer of check_email_preference is not looked at.
Admission_ignores_preference(logs, r, enabled) ==
    LET row == update_email_status(EmailLog(r, PENDING, NoErr), SENDING, NoErr)
    IN  IF unique_violation(logs, r)
        THEN [ok |-> FALSE, logs |-> logs, idx |-> 0]
        ELSE [ok |-> TRUE, logs |-> Append(logs, row), idx |-> Len(logs) + 1]

\* Lines 90-147: the row the call adds (FAILED when the preference denies
\* email, else PENDING and at once SENDING, line 206) and db.commit().
Admission(logs, r, enabled) ==
    LET row == IF enabled
               THEN update_email_status(EmailLog(r, PENDING, NoErr), SENDING, NoErr)
               ELSE EmailLog(r, FAILED, "User has email notifications disabled")
    IN  IF unique_violation(logs, r)
        THEN [ok |-> FALSE, logs |-> logs, idx |-> 0]
        ELSE [ok |-> TRUE, logs |-> Append(logs, row), idx |-> Len(logs) + 1]

\* Lines 90-213: from the answer of check_email_preference to the await of
\* the SENDING publish.  b is the breaker after the preference fetch.
AfterPreference(c, enabled, b) ==
    LET adm == Admission(email_logs, p_rid[c], enabled) IN
    /\ cb' = b
    /\ p_inserting' = [p_inserting EXCEPT ![c] = TRUE]
    /\ email_logs' = adm.logs
    /\ p_log' = [p_log EXCEPT ![c] = adm.idx]
    /\ IF ~adm.ok
       THEN /\ p_pc' = [p_pc EXCEPT ![c] = "raised"]
            /\ p_out' = [p_out EXCEPT ![c] = "IntegrityError"]
            /\ UNCHANGED <<send_entries, p_did>>
       ELSE IF ~enabled
       THEN /\ p_pc' = [p_pc EXCEPT ![c] = "returned"]
            /\ p_out' = [p_out EXCEPT ![c] = "disabled"]
            /\ p_did' = Did(c, "write")
            /\ UNCHANGED send_entries
       ELSE /\ p_pc' = [p_pc EXCEPT ![c] = "publish_sending"]
            /\ p_out' = [p_out EXCEPT ![c] = "none"]
            /\ p_did' = [p_did EXCEPT ![c].write = @ + 2, ![c].publish = @ + 1]
            /\ send_entries' = [send_entries EXCEPT ![p_rid[c]] = @ + 1]
    /\ UNCHANGED <<now, cbHist, status_events, p_rid, p_meta, p_orig, services, p_attempt, p_existed,
                   p_with, p_denied>>

\* Lines 164-173: _send_email raised, the row becomes FAILED and is returned.
SendFailed(c, error_message) ==
    /\ email_logs' = [email_logs EXCEPT
                        ![p_log[c]] = update_email_status(@, FAILED, error_message)]
    /\ p_pc' = [p_pc EXCEPT ![c] = "returned"]
    /\ p_out' = [p_out EXCEPT ![c] = "failed"]

\* Lines 44-72: the duplicate check, and for a new request_id the first
\* attempt of the user fetch.
process_notification(c, r, meta, orig) ==
    LET existing == first_by_request_id(email_logs, r)
        together == {d \in Calls \ {c} : InFlight(d) /\ p_rid[d] = r}
        ua == UserAttempt(cb, now, 0)
    IN
    /\ ~InFlight(c)
    /\ p_rid' = [p_rid EXCEPT ![c] = r]
    /\ p_meta' = [p_meta EXCEPT ![c] = meta]
    /\ p_orig' = [p_orig EXCEPT ![c] = orig]
    /\ p_existed' = [p_existed EXCEPT
                        ![c] = \E i \in DOMAIN email_logs : email_logs[i].request_id = r]
    /\ p_with' = [d \in Calls |->
                    IF d = c THEN together
                    ELSE IF d \in together THEN p_with[d] \cup {c}
                    ELSE p_with[d] \ {c}]
    /\ p_attempt' = [p_attempt EXCEPT ![c] = 0]
    /\ p_inserting' = [p_inserting EXCEPT ![c] = FALSE]
    /\ IF existing # 0
       THEN /\ p_pc' = [p_pc EXCEPT ![c] = "returned"]
            /\ p_out' = [p_out EXCEPT ![c] = "duplicate"]
            /\ p_log' = [p_log EXCEPT ![c] = existing]
            /\ p_denied' = [p_denied EXCEPT ![c] = FALSE]
            /\ p_did' = [p_did EXCEPT ![c] = NoneDone]
            /\ cb' = cb
       ELSE /\ p_pc' = [p_pc EXCEPT ![c] = ua.pc]
            /\ p_out' = [p_out EXCEPT ![c] = "none"]
            /\ p_log' = [p_log EXCEPT ![c] = 0]
            /\ p_denied' = [p_denied EXCEPT ![c] = ua.refused]
            /\ p_did' = [p_did EXCEPT
                            ![c] = [NoneDone EXCEPT
                                      !.user = IF ua.refused THEN 0 ELSE 1]]
            /\ cb' = ua.cb
    /\ UNCHANGED <<now, cbHist, email_logs, status_events, send_entries,
                   services>>
    /\ UNCHANGED <<retryVars, queueVars, smtpVars, restarts, prefVars>>
    /\ p_user_pref' = [p_user_pref EXCEPT ![c] = "none"]

\* main.process_email_message, lines 21-38: the consumer hands a decoded
\* message to process_notification.
ProcessNotification(c, r) ==
    /\ r \in Rids
    /\ process_notification(c, r, FALSE, 0)

\* api/email.py send_email, lines 72-102: POST /send builds a request whose
\* metadata carries recipient_email and calls process_notification.
SendEmail(c, r) ==
    /\ r \in ApiRids
    /\ process_notification(c, r, TRUE, 0)

\* api/email.py retry_failed_email, lines 206-250: POST /{notification_id}/retry
\* looks the notification's row up, answers 404 or 400 unless it is FAILED,
\* and calls process_notification with the derived request_id.
RetryFailedEmail(c, n) ==
    LET i == get_email_log(email_logs, n) IN
    /\ i # 0
    /\ email_logs[i].status = FAILED
    /\ process_notification(c, retry_request_id(email_logs[i]), TRUE, i)

\* Lines 64-89: the User Service answered.  Without an email address the
\* call raises ValueError; else check_email_preference fetches the user again.
UserFetchReturns(c, has_email, email_enabled) ==
    LET b == on_success(cb) IN
    /\ p_pc[c] = "user_fetch"
    /\ IF ~has_email
       THEN /\ cb' = b
            /\ p_pc' = [p_pc EXCEPT ![c] = "raised"]
            /\ p_out' = [p_out EXCEPT ![c] = "ValueError: no email address"]
            /\ UNCHANGED <<now, cbHist, email_logs, status_events, p_rid, p_meta, p_orig, services,
                           p_attempt, p_log, p_existed, p_with, p_denied,
                           p_inserting, p_did, send_entries>>
       ELSE IF call_refused(b, now)
       THEN AfterPreference(c, TRUE, b)
       ELSE /\ cb' = call_admit(b, now)
            /\ p_pc' = [p_pc EXCEPT ![c] = "pref_fetch"]
            /\ p_did' = Did(c, "user")
            /\ UNCHANGED <<now, cbHist, email_logs, status_events, p_rid, p_meta, p_orig, services,
                           p_attempt, p_log, p_out, p_existed, p_with,
                           p_denied, p_inserting, send_entries>>
    /\ UNCHANGED <<retryVars, queueVars, smtpVars, restarts, prefVars>>
    /\ p_user_pref' = [p_user_pref EXCEPT
                         ![c] = IF ~has_email THEN "none"
                                ELSE IF email_enabled THEN "enabled"
                                ELSE "disabled"]

\* Lines 67-78: the user fetch failed; sleep, or after the third attempt
\* raise ValueError.
UserFetchFails(c) ==
    /\ p_pc[c] = "user_fetch"
    /\ cb' = on_failure(cb, now)
    /\ IF p_attempt[c] < 2
       THEN /\ p_pc' = [p_pc EXCEPT ![c] = "user_sleep"]
            /\ UNCHANGED p_out
       ELSE /\ p_pc' = [p_pc EXCEPT ![c] = "raised"]
            /\ p_out' = [p_out EXCEPT ![c] = "ValueError: failed to fetch user"]
    /\ UNCHANGED <<now, cbHist, email_logs, status_events, p_rid, p_meta, p_orig, services, p_attempt,
                   p_log, p_existed, p_with, p_denied, p_inserting, p_did,
                   send_entries>>
    /\ UNCHANGED <<retryVars, queueVars, smtpVars, restarts, prefVars, p_user_pref>>

\* Lines 72, 62-74: asyncio.sleep returned, the next attempt of the user fetch.
UserSleepWakes(c) ==
    LET k == p_attempt[c] + 1
        ua == UserAttempt(cb, now, k)
    IN
    /\ p_pc[c] = "user_sleep"
    /\ p_attempt' = [p_attempt EXCEPT ![c] = k]
    /\ cb' = ua.cb
    /\ p_pc' = [p_pc EXCEPT ![c] = ua.pc]
    /\ p_out' = [p_out EXCEPT
                    ![c] = IF ua.pc = "raised"
                           THEN "ValueError: failed to fetch user" ELSE @]
    /\ p_denied' = [p_denied EXCEPT ![c] = @ \/ ua.refused]
    /\ p_did' = IF ua.refused THEN p_did ELSE Did(c, "user")
    /\ UNCHANGED <<now, cbHist, email_logs, status_events, p_rid, p_meta, p_orig, services, p_log,
                   p_existed, p_with, p_inserting, send_entries>>
    /\ UNCHANGED <<retryVars, queueVars, smtpVars, restarts, prefVars, p_user_pref>>

\* user_client.check_email_preference, lines 72-75: the second fetch answered
\* with preferences.email_enabled (True when absent).
PrefFetchReturns(c, enabled) ==
    /\ p_pc[c] = "pref_fetch"
    /\ AfterPreference(c, enabled, on_success(cb))
    /\ UNCHANGED <<retryVars, queueVars, smtpVars, restarts, prefVars, p_user_pref>>

\* user_client.check_email_preference, lines 76-78: the second fetch failed,
\* the preference counts as enabled.
PrefFetchFails(c) ==
    /\ p_pc[c] = "pref_fetch"
    /\ AfterPreference(c, TRUE, on_failure(cb, now))
    /\ UNCHANGED <<retryVars, queueVars, smtpVars, restarts, prefVars, p_user_pref>>

\* _send_email, lines 209-234: the SENDING status was published; the first
\* attempt to render the template raises and the loop sleeps.
PublishSendingReturns(c) ==
    /\ p_pc[c] = "publish_sending"
    /\ render_email_template # "ok"
    /\ status_events' = Append(status_events,
                               [notification_id |-> notification_id(p_rid[c]),
                                status |-> "SENDING"])
    /\ p_pc' = [p_pc EXCEPT ![c] = "tmpl_sleep"]
    /\ p_attempt' = [p_attempt EXCEPT ![c] = 0]
    /\ p_did' = Did(c, "template")
    /\ UNCHANGED <<now, cb, cbHist, email_logs, p_rid, p_meta, p_orig, services, p_log, p_out, p_existed,
                   p_with, p_denied, p_inserting, send_entries>>
    /\ UNCHANGED <<retryVars, queueVars, smtpVars, restarts, prefVars, p_user_pref>>

\* _send_email, lines 209-213, and lines 164-173: the publish raised.
PublishSendingFails(c) ==
    /\ p_pc[c] = "publish_sending"
    /\ SendFailed(c, "PublishError")
    /\ p_did' = Did(c, "write")
    /\ UNCHANGED <<now, cb, cbHist, status_events, p_rid, p_meta, p_orig, services, p_attempt, p_log,
                   p_existed, p_with, p_denied, p_inserting, send_entries>>
    /\ UNCHANGED <<retryVars, queueVars, smtpVars, restarts, prefVars, p_user_pref>>

\* _send_email, lines 220-237, and lines 164-173: asyncio.sleep returned, the
\* next attempt to render raises again; after the third the row is FAILED.
TemplateSleepWakes(c) ==
    LET k == p_attempt[c] + 1 IN
    /\ p_pc[c] = "tmpl_sleep"
    /\ render_email_template # "ok"
    /\ p_attempt' = [p_attempt EXCEPT ![c] = k]
    /\ IF k < 2
       THEN /\ p_did' = Did(c, "template")
            /\ UNCHANGED <<email_logs, p_pc, p_out>>
       ELSE /\ SendFailed(c, render_email_template)
            /\ p_did' = [p_did EXCEPT ![c].template = @ + 1, ![c].write = @ + 1]
    /\ UNCHANGED <<now, cb, cbHist, status_events, p_rid, p_meta, p_orig, services, p_log, p_existed,
                   p_with, p_denied, p_inserting, send_entries>>
    /\ UNCHANGED <<retryVars, queueVars, smtpVars, restarts, prefVars, p_user_pref>>

\* An idle period of the length of the breaker's recovery timeout passes.
TimePasses ==
    /\ now < MaxIdlePeriods * cb.timeout
    /\ now' = now + cb.timeout
    /\ UNCHANGED <<cb, cbHist, pipeVars, retryVars, queueVars, smtpVars, restarts, prefVars>>

Next ==
    \/ \E c \in Calls, r \in Rids : ProcessNotification(c, r)
    \/ \E c \in Calls, has_email, email_enabled \in BOOLEAN :
           UserFetchReturns(c, has_email, email_enabled)
    \/ \E c \in Calls : UserFetchFails(c)
    \/ \E c \in Calls : UserSleepWakes(c)
    \/ \E c \in Calls, enabled \in BOOLEAN : PrefFetchReturns(c, enabled)
    \/ \E c \in Calls : PrefFetchFails(c)
    \/ \E c \in Calls : PublishSendingReturns(c)
    \/ \E c \in Calls : PublishSendingFails(c)
    \/ \E c \in Calls : TemplateSleepWakes(c)
    \/ TimePasses

Init ==
    /\ now = 0
    /\ cb = UserServiceBreaker
    /\ CbCallersIdle
    /\ PipeStart
    /\ ServicesUp
    /\ RetryOff
    /\ QueueOff
    /\ SmtpOff
    /\ NoRestart
    /\ PrefOff

Spec == Init /\ [][Next]_vars

\* The awaits of process_notification complete: the HTTP clients carry
\* timeouts and the sleeps are finite.
PipelineCompletes(c) ==
    \/ \E has_email, email_enabled \in BOOLEAN :
           UserFetchReturns(c, has_email, email_enabled)
    \/ UserFetchFails(c)
    \/ UserSleepWakes(c)
    \/ \E enabled \in BOOLEAN : PrefFetchReturns(c, enabled)
    \/ PrefFetchFails(c)
    \/ PublishSendingReturns(c)
    \/ PublishSendingFails(c)
    \/ TemplateSleepWakes(c)

\* The HTTP API: POST /send and POST /{notification_id}/retry, with the
\* Template Service and the provider answering in one of the ways of Answers
\* ("unrenderable": the service answers with a template that Jinja2 rejects).
Answers ==
    [template : {"up", "down", "up_on_third", "unrenderable"},
     provider : {"up", "down"}]

NextApi ==
    \/ \E c \in ApiCalls, r \in ApiRids : SendEmail(c, r)
    \/ \E c \in ApiCalls, n \in 1..NumApiRids : RetryFailedEmail(c, n)
    \/ \E c \in ApiCalls, has_email, email_enabled \in BOOLEAN :
           UserFetchReturns(c, has_email, email_enabled)
    \/ \E c \in ApiCalls : UserFetchFails(c)
    \/ \E c \in ApiCalls : UserSleepWakes(c)
    \/ \E c \in ApiCalls, enabled \in BOOLEAN : PrefFetchReturns(c, enabled)
    \/ \E c \in ApiCalls : PrefFetchFails(c)
    \/ \E c \in ApiCalls : PublishSendingReturns(c)
    \/ \E c \in ApiCalls : PublishSendingFails(c)
    \/ \E c \in ApiCalls : TemplateSleepWakes(c)
    \/ TimePasses

InitApi ==
    /\ now = 0
    /\ cb = UserServiceBreaker
    /\ CbCallersIdle
    /\ PipeStart
    /\ services \in Answers
    /\ RetryOff
    /\ QueueOff
    /\ SmtpOff
    /\ NoRestart
    /\ PrefOff

SpecApi == InitApi /\ [][NextApi]_vars

\* The HTTP API with its scheduling: the event loop resumes every call whose
\* await has completed.
FairSpecApi == SpecApi /\ \A c \in ApiCalls : WF_vars(PipelineCompletes(c))

InitQueue == QueueStart /\ RetryOff /\ CbOff /\ PipeOff /\ SmtpOff /\ NoRestart /\ PrefOff

SpecQueue == InitQueue /\ [][NextQueue]_vars

\* The consumer with its scheduling: the event loop resumes every suspended
\* coroutine whose await completes, and the awaits of process_message (the
\* callback, whose calls carry timeouts, and the dead-letter publish) do
\* complete, by returning or by raising.
QueueCompletes(m) ==
    \/ \E raised \in BOOLEAN : HandlerEnds(m, raised)
    \/ DeadLetterPublished(m)
    \/ DeadLetterPublishFails(m)

FairSpecQueue == SpecQueue /\ \A m \in Msgs : WF_vars(QueueCompletes(m))

(***************************************************************************)
(* The wired consumer (app/main.py consume_email_queue): the handler of a  *)
(* delivered request is process_notification; the process may be           *)
(* interrupted while handlers are suspended, and the broker then delivers  *)
(* the unacknowledged messages again.                                      *)
(***************************************************************************)
Consumers == 1..NumConsumers

\* main.process_email_message, lines 21-35, for a message delivered for the
\* first time.
ConsumeRequest(c, r) ==
    /\ c \in Consumers
    /\ p_out[c] # "interrupted"
    /\ ProcessNotification(c, r)

\* The process is killed (or loses its broker connection) while handlers are
\* suspended: the handlers are gone, what they committed stays in the
\* database, the breaker, an object of the process, is constructed anew on
\* restart, and the messages they had not acknowledged go back to the queue.
Interrupted ==
    /\ \E c \in Consumers : InFlight(c)
    /\ restarts < MaxRestarts
    /\ restarts' = restarts + 1
    /\ p_pc' = [c \in Calls |-> IF InFlight(c) THEN "idle" ELSE p_pc[c]]
    /\ p_out' = [c \in Calls |-> IF InFlight(c) THEN "interrupted" ELSE p_out[c]]
    /\ cb' = UserServiceBreaker
    /\ UNCHANGED <<now, cbHist, email_logs, status_events, services, p_rid,
                   p_meta, p_orig, p_attempt, p_log, p_existed, p_with,
                   p_denied, p_inserting, p_did, send_entries>>
    /\ UNCHANGED <<retryVars, queueVars, smtpVars, prefVars, p_user_pref>>

\* main.process_email_message, lines 21-35, for a message delivered again
\* after an interruption.
Redelivered(c) ==
    /\ c \in Consumers
    /\ p_out[c] = "interrupted"
    /\ ProcessNotification(c, p_rid[c])

NextConsumer ==
    \/ \E c \in Consumers, r \in Rids : ConsumeRequest(c, r)
    \/ \E c \in Consumers : Redelivered(c)
    \/ Interrupted
    \/ \E c \in Consumers, has_email, email_enabled \in BOOLEAN :
           UserFetchReturns(c, has_email, email_enabled)
    \/ \E c \in Consumers : UserFetchFails(c)
    \/ \E c \in Consumers : UserSleepWakes(c)
    \/ \E c \in Consumers, enabled \in BOOLEAN : PrefFetchReturns(c, enabled)
    \/ \E c \in Consumers : PrefFetchFails(c)
    \/ \E c \in Consumers : PublishSendingReturns(c)
    \/ \E c \in Consumers : PublishSendingFails(c)
    \/ \E c \in Consumers : TemplateSleepWakes(c)
    \/ TimePasses

\* The awaits of a handler complete (the HTTP clients carry timeouts, the
\* sleeps are finite), and the broker delivers an unacknowledged message
\* again.
ConsumerCompletes(c) ==
    \/ Redelivered(c)
    \/ PipelineCompletes(c)

InitConsumer == Init

SpecConsumer == InitConsumer /\ [][NextConsumer]_vars

FairSpecConsumer ==
    SpecConsumer /\ \A c \in Consumers : WF_vars(ConsumerCompletes(c))

InitPref ==
    /\ PrefStart
    /\ now = 0
    /\ cb = UserServiceBreaker
    /\ CbCallersIdle
    /\ RetryOff /\ PipeOff /\ QueueOff /\ SmtpOff /\ NoRestart

SpecPref == InitPref /\ [][NextPref]_vars

InitSmtp == SmtpStart /\ RetryOff /\ CbOff /\ PipeOff /\ QueueOff /\ NoRestart /\ PrefOff

SpecSmtp == InitSmtp /\ [][NextSmtp]_vars

InitRetry == RetryStart /\ CbOff /\ PipeOff /\ QueueOff /\ SmtpOff /\ NoRestart /\ PrefOff

SpecRetry == InitRetry /\ [][NextRetry]_vars

InitCB == CbStart /\ RetryOff /\ PipeOff /\ QueueOff /\ SmtpOff /\ NoRestart /\ PrefOff

SpecCB == InitCB /\ [][NextCB]_vars

(***************************************************************************)
(* Claims about retry_with_backoff, checked under SpecRetry.               *)
(***************************************************************************)
\* The delay the contract gives before attempt k (0-indexed, k >= 1).
ContractDelay(k, base) == Pow2(k - 1) * base

\* C8: for every positive max_attempts = N an operation that fails on every
\* call is invoked exactly N times, the sleep before attempt k (k = 1..N-1)
\* is 2^(k-1) * backoff_base, there is no sleep before the first attempt and
\* none after the last.
C8_ExactlyNAttemptsWithBackoff ==
    /\ (r_pc = "raised" /\ r_max_arg >= 1) =>
          /\ r_calls = r_max_arg
          /\ Len(r_sleeps) = r_max_arg - 1
    /\ r_pc # "off" =>
          /\ \A k \in 1..Len(r_sleeps) :
                r_sleeps[k] = ContractDelay(k, backoff_base)
          /\ (r_calls = 0 => r_sleeps = <<>>)
          /\ Len(r_sleeps) <= r_calls
          /\ (r_pc = "call" => Len(r_sleeps) = r_calls)
          /\ (r_base_arg >= 1 => backoff_base = r_base_arg)

C8_Witness ==
    /\ r_pc = "raised"
    /\ r_max_arg >= 3
    /\ r_calls = r_max_arg
    /\ Len(r_sleeps) >= 2
    /\ r_sleeps[2] = 2 * r_sleeps[1]

\* C9: when max_attempts is exhausted the error raised is the error of the
\* last attempt itself, not an earlier one and not a wrapper.
C9_RaisesLastError ==
    r_pc = "raised" =>
        /\ Len(r_errs) >= 1
        /\ r_result = r_errs[Len(r_errs)]

C9_Witness ==
    /\ r_pc = "raised"
    /\ Len(r_errs) >= 2
    /\ r_errs[1] # r_errs[Len(r_errs)]
    /\ r_result = r_errs[Len(r_errs)]

\* The total of a sequence of sleeps.
RECURSIVE TotalSlept(_)
TotalSlept(sleeps) ==
    IF sleeps = <<>> THEN 0 ELSE Head(sleeps) + TotalSlept(Tail(sleeps))

\* C39: when the operation first succeeds on attempt k (0-indexed,
\* k < max_attempts), k being the number of attempts that raised before it,
\* the operation has been invoked exactly k+1 times, the loop has slept
\* exactly k times for a total of (2^k - 1) * backoff_base seconds, the
\* attempt's result is returned and nothing is raised; the loop never stops
\* short of an attempt k < max_attempts, and a returned call does nothing more.
C39_FirstSuccessOnAttemptK ==
    /\ [](r_pc = "returned" =>
            /\ Len(r_errs) < max_attempts
            /\ attempt = Len(r_errs)
            /\ r_calls = Len(r_errs) + 1
            /\ Len(r_sleeps) = Len(r_errs)
            /\ TotalSlept(r_sleeps) = (Pow2(Len(r_errs)) - 1) * backoff_base
            /\ r_result = "ok"
            /\ r_result \notin Errors)
    /\ [](r_pc \in {"call", "sleep"} => attempt < max_attempts)
    /\ [](r_pc = "call" => ENABLED RetryCallReturns)
    /\ [][r_pc = "returned" => UNCHANGED retryVars]_vars

C39_Witness ==
    /\ r_pc = "returned"
    /\ Len(r_errs) = 2
    /\ r_calls = 3
    /\ backoff_base >= 2
    /\ TotalSlept(r_sleeps) = 3 * backoff_base

\* C40: a limit passed explicitly is the limit used, for every value
\* including 0.  Stated for the retry loop: it runs with the given
\* max_attempts and backoff_base.  (Both breaker constructors resolve their
\* failure_threshold and timeout with the same `x or default`, PyOr.)
C40_ExplicitLimitsHonoured ==
    r_pc # "off" =>
        /\ (r_max_arg # None => max_attempts = r_max_arg)
        /\ (r_base_arg # None => backoff_base = r_base_arg)

(***************************************************************************)
(* Claims about AsyncCircuitBreaker, checked under SpecCB.                 *)
(***************************************************************************)
\* C5: after failure_threshold consecutive failed calls (no success between
\* them) the breaker is OPEN, and a call made before the recovery timeout
\* has elapsed raises the circuit-open error without invoking the operation.
C5_OpensAndFailsFast ==
    /\ FastFailDue(cb_consec, cb, now) => cb.state = OPEN
    /\ \A c \in Callers : cb_due[c] => cb_pc[c] = "denied"

C5_Witness ==
    \E c \in Callers :
        /\ cb_due[c]
        /\ cb_pc[c] = "denied"
        /\ cb.state = OPEN
        /\ cb.failure_count >= cb.failure_threshold

\* C6: with the breaker OPEN and the recovery timeout elapsed, exactly one
\* caller's operation is let through as the HALF_OPEN trial, and while it is
\* in flight no second caller's operation is invoked.
C6_SingleHalfOpenTrial ==
    Cardinality({c \in Callers :
                    cb_pc[c] = "running" /\ cb_admitted[c] = HALF_OPEN}) <= 1

\* C7: in HALF_OPEN a successful trial call moves the breaker to CLOSED with
\* failure_count = 0, and a failed trial call moves it back to OPEN with
\* last_failure_time set to the time of that failure.
C7_HalfOpenTrialOutcome ==
    /\ (cb_last.kind = "success" /\ cb_last.pre = HALF_OPEN) =>
          /\ cb.state = CLOSED
          /\ cb.failure_count = 0
    /\ (cb_last.kind = "failure" /\ cb_last.pre = HALF_OPEN) =>
          /\ cb.state = OPEN
          /\ cb.last_failure_time = cb_last.at

C7_Witness ==
    /\ cb_last.kind = "failure"
    /\ cb_last.pre = HALF_OPEN
    /\ cb.state = OPEN
    /\ cb.last_failure_time = cb_last.at
    /\ cb_last.at > 0


(***************************************************************************)
(* Claims about process_notification (Spec).                               *)
(***************************************************************************)
\* C1: at no time do two EmailLog rows carry the same request_id, whatever
\* the interleaving of the calls.
C1_OneRecordPerRequestId ==
    \A i, j \in DOMAIN email_logs :
        i # j => email_logs[i].request_id # email_logs[j].request_id

\* Two calls raced for one request_id: one row exists and the other call's
\* commit was rejected.
C1_Witness ==
    \E c \in Calls :
        /\ p_out[c] = "IntegrityError"
        /\ \E i \in DOMAIN email_logs : email_logs[i].request_id = p_rid[c]

\* C2: of two concurrent calls with one request_id that both passed the
\* duplicate check before either inserted, one creates the row and the other,
\* once it has tried its own insert and ended, has returned that same row as
\* a duplicate rather than ended in an error.
C2_LoserReturnsDuplicate ==
    \A c1, c2 \in Calls :
        ( /\ c1 # c2
          /\ p_rid[c1] = p_rid[c2]
          /\ c2 \in p_with[c1]
          /\ ~p_existed[c1] /\ ~p_existed[c2]
          /\ p_inserting[c1] /\ p_log[c1] # 0
          /\ p_inserting[c2] /\ ~InFlight(c2) )
        => /\ p_out[c2] = "duplicate"
           /\ p_log[c2] = p_log[c1]

\* C3: for every request_id, _send_email (the only code that calls the
\* dispatcher, line 248) is entered on behalf of at most one call, redelivered
\* and concurrent calls included.
C3_AtMostOneDispatchPerRequestId ==
    \A r \in AllRids : send_entries[r] <= 1

\* One call went through _send_email for a request_id and a redelivery of the
\* same request_id came back as a duplicate.
C3_Witness ==
    \E c1, c2 \in Calls :
        /\ c1 # c2
        /\ p_rid[c1] = p_rid[c2]
        /\ send_entries[p_rid[c1]] = 1
        /\ p_out[c1] = "failed"
        /\ p_out[c2] = "duplicate"

\* C4: a call whose request_id already has a row returns that row as a
\* duplicate, has made no User Service call, no template call, no publish and
\* no write, and its step leaves the rows, the status events, the entries to
\* _send_email and the User Service breaker as they were.
C4_DuplicateChangesNothing ==
    /\ [](\A c \in Calls :
            p_existed[c] =>
                /\ p_pc[c] = "returned"
                /\ p_out[c] = "duplicate"
                /\ p_log[c] \in DOMAIN email_logs
                /\ email_logs[p_log[c]].request_id = p_rid[c]
                /\ p_did[c] = NoneDone)
    /\ [][\A c \in Calls, r \in Rids :
            (ProcessNotification(c, r) /\ p_existed'[c]) =>
                UNCHANGED <<email_logs, status_events, send_entries, cb, now>>]_vars

\* A redelivered request_id came back as a duplicate after its first call had
\* published a status event and ended FAILED.
C4_Witness ==
    \E c \in Calls :
        /\ p_existed[c]
        /\ p_out[c] = "duplicate"
        /\ email_logs[p_log[c]].status = FAILED
        /\ Len(status_events) >= 1

\* C10: a call whose user fetch was refused by the open breaker has left the
\* retry loop with the error: it neither sleeps nor attempts again.
C10_DeniedCallAborts ==
    \A c \in Calls : p_denied[c] => p_pc[c] = "raised"


\* The status changes the pipeline may apply to a row.
StatusChanges == {<<PENDING, SENDING>>, <<SENDING, SENT>>, <<SENDING, FAILED>>}

\* C11: every status change applied to a row, in the history of each row and
\* in every step, is PENDING to SENDING, SENDING to SENT or SENDING to FAILED;
\* so a row that is SENT or FAILED keeps its status.
C11_StatusChanges ==
    /\ [](\A i \in DOMAIN email_logs :
            \A k \in 1..(Len(email_logs[i].history) - 1) :
                <<email_logs[i].history[k], email_logs[i].history[k + 1]>>
                    \in StatusChanges)
    /\ [][\A i \in DOMAIN email_logs :
            email_logs'[i].status # email_logs[i].status =>
                <<email_logs[i].status, email_logs'[i].status>> \in StatusChanges]_vars

\* A row went from PENDING through SENDING to FAILED, and a later call with
\* its request_id has come and gone.
C11_Witness ==
    \E i \in DOMAIN email_logs :
        /\ email_logs[i].history = <<PENDING, SENDING, FAILED>>
        /\ \E c \in Calls : p_out[c] = "duplicate" /\ p_log[c] = i



\* The positions in status_events of the events of notification n with the
\* status st.
EventsOf(n, st) ==
    {k \in DOMAIN status_events :
        status_events[k] = [notification_id |-> n, status |-> st]}

\* C12: with a Template Service that answers and a provider that accepts the
\* message, a call that entered the template step and has returned left its
\* row SENT, and one SENT event of the notification was published, after the
\* SENDING event.
C12_SuccessfulDispatchRecorded ==
    \A c \in Calls :
        ( /\ services = [template |-> "up", provider |-> "up"]
          /\ p_pc[c] = "returned"
          /\ p_did[c].template > 0 )
        => LET n == notification_id(p_rid[c]) IN
           /\ email_logs[p_log[c]].status = SENT
           /\ Cardinality(EventsOf(n, "SENT")) = 1
           /\ \A k \in EventsOf(n, "SENT") :
                \E j \in EventsOf(n, "SENDING") : j < k

\* C13: a call whose template step failed on all three attempts has left its
\* row FAILED with the error text as error_message, the only status event of
\* the notification is the SENDING one published before, and none is
\* published for it afterwards.
C13_ExhaustedStepFailsRecord ==
    /\ [](\A c \in Calls :
            (p_pc[c] = "returned" /\ p_did[c].template = 3) =>
                LET n == notification_id(p_rid[c]) IN
                /\ email_logs[p_log[c]].status = FAILED
                /\ email_logs[p_log[c]].error_message = render_email_template
                /\ EventsOf(n, "SENDING") = {k \in DOMAIN status_events :
                                               status_events[k].notification_id = n}
                /\ Cardinality(EventsOf(n, "SENDING")) = 1)
    /\ [][\A i \in DOMAIN email_logs :
            email_logs[i].status = FAILED =>
                \A k \in DOMAIN status_events' :
                    status_events'[k].notification_id = email_logs[i].notification_id
                        => k \in DOMAIN status_events]_vars

\* The template step of a call failed three times and its row is FAILED.
C13_Witness ==
    \E c \in Calls :
        /\ p_pc[c] = "returned"
        /\ p_did[c].template = 3
        /\ email_logs[p_log[c]].status = FAILED
        /\ email_logs[p_log[c]].retry_count = 1

\* C14: after a call whose user fetch failed on all its attempts, a row of
\* its request_id exists, FAILED and with an error message.
C14_UserFetchFailureRecorded ==
    \A c \in Calls :
        p_out[c] = "ValueError: failed to fetch user" =>
            \E i \in DOMAIN email_logs :
                /\ email_logs[i].request_id = p_rid[c]
                /\ email_logs[i].status = FAILED
                /\ email_logs[i].error_message # NoErr

C16_ThirdTemplateAttemptSucceeds ==
    \A c \in Calls :
        ( /\ services = [template |-> "up_on_third", provider |-> "up"]
          /\ p_pc[c] = "returned"
          /\ p_did[c].template > 0 )
        => /\ p_did[c].template = 3
           /\ p_attempt[c] = 2
           /\ email_logs[p_log[c]].status = SENT

\* C17: a retry of a FAILED row that has returned holds a row other than the
\* original, created by this call under the derived request_id, and the
\* original row is still FAILED under its own request_id.
C17_RetryCreatesIndependentRecord ==
    \A c \in Calls :
        (p_orig[c] # 0 /\ p_pc[c] = "returned") =>
            /\ p_log[c] # p_orig[c]
            /\ p_inserting[c]
            /\ email_logs[p_log[c]].request_id = p_rid[c]
            /\ email_logs[p_orig[c]].request_id # p_rid[c]
            /\ email_logs[p_orig[c]].status = FAILED

\* C18: every retry is submitted under a request_id that no row carries yet,
\* so none is skipped as a duplicate.
C18_RetryIsNewRequest ==
    \A c \in Calls :
        p_orig[c] # 0 => ~p_existed[c] /\ p_out[c] # "duplicate"

\* C19: a call whose request carries recipient_email in its metadata makes
\* no request to the User Service.
C19_MetadataRecipientSkipsUserService ==
    \A c \in Calls : p_meta[c] => p_did[c].user = 0



(***************************************************************************)
(* Claims about the queue consumer (SpecQueue).                            *)
(***************************************************************************)
\* The dead letters published for message m that carry its raw payload, an
\* error description and the routing key failed.email.
DeadLettersOf(m) ==
    {k \in DOMAIN dead_letters :
        /\ dead_letters[k].of = m
        /\ dead_letters[k].original_message = q_body[m]
        /\ dead_letters[k].error # NoErr
        /\ dead_letters[k].routing_key = "failed.email"}

\* C20: a consumed message whose body is not valid JSON, once the consumer is
\* done with it and the broker having taken the dead-letter publish, never
\* reached the callback, has exactly one dead letter with its raw payload and
\* an error description under failed.email, and is acknowledged.
C20_InvalidJsonDeadLettered ==
    \A m \in Msgs :
        ( /\ q_body[m] \in {"not_json", "not_utf8"}
          /\ q_pc[m] \in {"acked", "rejected"}
          /\ q_err[m] # "PublishError" )
        => /\ q_handled[m] = 0
           /\ Cardinality(DeadLettersOf(m)) = 1
           /\ q_pc[m] = "acked"


\* The messages the consumer has acknowledged or rejected.
Settled == {m \in Msgs : q_pc[m] \in {"acked", "rejected"}}

\* C21: a message delivered by consume_emails is settled (acknowledged or
\* rejected) exactly once: it is settled at the latest when its handler or
\* its dead-letter publish completes, not while one of them is pending, a
\* settled message is never settled again, and no delivered message goes
\* back to the queue, whether the handler returns or raises, decoding fails
\* or the dead-letter publish fails.
C21_SettledOnceAfterCompletion ==
    /\ [][\A m \in Msgs :
            /\ m \in Settled => q_pc'[m] = q_pc[m]
            /\ m \in Unacked => q_pc'[m] \in {q_pc[m], "acked", "rejected"}
            /\ (q_pc[m] = "queued" /\ q_pc'[m] # "queued")
                 => \/ q_pc'[m] \in {"handling", "dead_lettering"}
                    \/ /\ q_pc'[m] \in {"acked", "rejected"}
                       /\ dead_letters' = dead_letters
                       /\ q_body[m] \in {"other_json", "not_utf8"}
            /\ (m \in Unacked /\ q_pc'[m] = "acked" /\ q_pc[m] = "dead_lettering")
                 => Len(dead_letters') = Len(dead_letters) + 1]_vars
    /\ \A m \in Msgs : (m \in Unacked) ~> (m \in Settled)

\* The handler of one message has ended, the dead letter of another has been
\* published, the dead-letter publish of a third has failed: each is settled.
C21_Witness ==
    \E m1, m2, m3 \in Msgs :
        /\ q_body[m1] = "request" /\ q_pc[m1] = "acked"
        /\ q_body[m2] = "not_json" /\ q_pc[m2] = "acked"
        /\ DeadLettersOf(m2) # {}
        /\ q_body[m3] = "not_json" /\ q_pc[m3] = "rejected"
        /\ q_err[m3] = "PublishError"


\* C22: in the wired consumer a malformed payload that can be decoded (text
\* that is not JSON, or JSON that does not match the request schema) never
\* reaches process_notification and, once the consumer is done with it and
\* the broker having taken the dead-letter publish, has a dead letter.
C22_MalformedPayloadDeadLettered ==
    /\ [][\A m \in Msgs :
            q_body[m] # "request" => q_pc'[m] # "handling"]_vars
    /\ [](\A m \in Msgs :
            ( /\ q_body[m] \in {"not_json", "other_json"}
              /\ m \in Settled
              /\ q_err[m] # "PublishError" )
            => DeadLettersOf(m) # {})


(***************************************************************************)
(* Claims about the dispatcher (SpecSmtp).                                 *)
(***************************************************************************)
\* C23: a failed send through a provider counts on that provider's breaker:
\* once failure_threshold consecutive sends through one provider have failed,
\* its breaker is OPEN.
C23_FailedSendsOpenProviderBreaker ==
    \A p \in Providers :
        s_failed[p] >= provider_breakers[p].failure_threshold
        => provider_breakers[p].state = OPEN

\* C24: a call of send_email goes through the provider its override names
\* when one is given, and through settings.email_provider when none is.
C24_OverrideSelectsProvider ==
    \A c \in Senders :
        s_via[c] # "none"
        => /\ s_override[c] \in Providers => s_via[c] = s_override[c]
           /\ s_override[c] = "None"
                => s_via[c] = smtp_settings.email_provider

C26_RenderFailureNotRetried ==
    \A c \in Calls :
        (services.template = "unrenderable" /\ p_did[c].template > 0)
        => /\ p_did[c].template = 1
           /\ p_attempt[c] = 0
           /\ p_pc[c] = "returned"
           /\ email_logs[p_log[c]].status = FAILED


\* C27: the UserService breaker guards the user-fetch loop as one unit: a
\* call made alone on a fresh breaker, none of whose attempts was refused and
\* whose attempts all failed, has registered one failure on the breaker; and
\* a call that the breaker has refused is not waiting for another attempt.
C27_BreakerGuardsWholeLoop ==
    \A c \in Calls :
        /\ ( /\ p_out[c] = "ValueError: failed to fetch user"
             /\ ~p_denied[c]
             /\ now = 0
             /\ \A c2 \in Calls \ {c} : p_pc[c2] = "idle" )
           => cb.failure_count = 1
        /\ p_denied[c] => p_pc[c] # "user_sleep"


(***************************************************************************)
(* Claims about the wired consumer (FairSpecConsumer).                     *)
(***************************************************************************)
\* The rows of request_id r.
RowsOf(r) == {i \in DOMAIN email_logs : email_logs[i].request_id = r}

\* The outcome of r is recorded once: a single row, in a terminal status.
Recorded(r) ==
    /\ Cardinality(RowsOf(r)) = 1
    /\ \A i \in RowsOf(r) : email_logs[i].status \in {SENT, FAILED}

\* C28: every request consumed from the queue eventually has its outcome
\* recorded once, as a single row in a terminal status, also when the process
\* is interrupted after the row was created and the message is delivered
\* again.
C28_ConsumedRequestEventuallyRecorded ==
    \A r \in Rids :
        (\E c \in Consumers : p_rid[c] = r /\ p_pc[c] # "idle")
        ~> Recorded(r)


(***************************************************************************)
(* Claims about check_email_preference (SpecPref).                         *)
(***************************************************************************)
\* C29: a call of check_email_preference that has ended returned a value, and
\* the value is True when the preference could not be determined (the fetch
\* failed, the breaker refused it, email_enabled is absent) and the fetched
\* value otherwise.
C29_PreferenceDefaultsToTrue ==
    \A c \in Callers :
        (pr_pc[c] = "idle" /\ pr_fetched[c] # "none")
        => /\ pr_returned[c] \in {"True", "False"}
           /\ pr_fetched[c] \in {"refused", "failed", "absent"}
                => pr_returned[c] = "True"
           /\ pr_fetched[c] = "enabled" => pr_returned[c] = "True"
           /\ pr_fetched[c] = "disabled" => pr_returned[c] = "False"

\* After failed fetches have opened the breaker, one call was refused and
\* returned True, and the last call of another caller found no email_enabled
\* field and returned True.
C29_Witness ==
    \E c1, c2 \in Callers :
        /\ pr_fetched[c1] = "refused" /\ pr_returned[c1] = "True"
        /\ pr_fetched[c2] = "absent" /\ pr_returned[c2] = "True"
        /\ cb.state = OPEN /\ cb.failure_count >= cb.failure_threshold


(***************************************************************************)
(* Claims about what process_notification hands back (SpecApi).            *)
(***************************************************************************)
\* C30: a call of the HTTP API for a request_id that had no row, once ended,
\* has returned a row (it did not raise), the row is SENT or FAILED, and a
\* FAILED row carries an error message.
C30_ReturnedRecordTerminal ==
    \A c \in ApiCalls :
        (p_pc[c] \in {"returned", "raised"} /\ ~p_existed[c])
        => /\ p_pc[c] = "returned"
           /\ p_log[c] # 0
           /\ email_logs[p_log[c]].status \in {SENT, FAILED}
           /\ email_logs[p_log[c]].status = FAILED
                => email_logs[p_log[c]].error_message # NoErr


(***************************************************************************)
(* Further claims about the queue consumer (SpecQueue).                    *)
(***************************************************************************)
\* C31: at every moment the messages delivered to the consumer and not yet
\* acknowledged or rejected are at most prefetch_count.
C31_UnackedWithinPrefetch == Cardinality(Unacked) <= PrefetchCount

\* prefetch_count messages are being handled and another waits in the queue.
C31_Witness ==
    /\ Cardinality(Unacked) = PrefetchCount
    /\ \E m \in Msgs : q_pc[m] = "queued"


(***************************************************************************)
(* Further claims about AsyncCircuitBreaker (SpecCB).                      *)
(***************************************************************************)
\* C32: a call refused by the OPEN breaker leaves state, failure_count and
\* last_failure_time as they were, and its error carries the remaining wait,
\* timeout minus the time elapsed since the last failure (a positive time).
C32_RefusalLeavesBreakerAlone ==
    /\ [][cb_last'.kind = "refuse" => cb' = cb]_vars
    /\ [](cb_last.kind = "refuse"
          => /\ cb_last.pre = OPEN
             /\ cb.state = OPEN
             /\ cb.last_failure_time # None
             /\ cb_last.time_left
                  = cb.timeout - (cb_last.at - cb.last_failure_time)
             /\ cb_last.time_left > 0)

\* A call was refused some time after the failure that opened the breaker,
\* with less than the whole timeout left to wait.
C32_Witness ==
    /\ cb_last.kind = "refuse"
    /\ cb_last.at > cb.last_failure_time
    /\ cb_last.time_left < cb.timeout
    /\ \E c \in Callers : cb_pc[c] = "denied"


\* C33: in every reachable state of the breaker, under any interleaving of
\* calls and manual resets: OPEN or HALF_OPEN implies failure_count >=
\* failure_threshold and last_failure_time set; CLOSED implies failure_count <
\* failure_threshold.
C33_StateMatchesCount ==
    /\ cb.state \in {OPEN, HALF_OPEN}
         => /\ cb.failure_count >= cb.failure_threshold
            /\ cb.last_failure_time # None
    /\ cb.state = CLOSED => cb.failure_count < cb.failure_threshold

\* The breaker is HALF_OPEN with its trial call running, while a call
\* admitted when it was CLOSED is still running too.
C33_Witness ==
    /\ cb.state = HALF_OPEN
    /\ cb.failure_count >= cb.failure_threshold
    /\ \E c1, c2 \in Callers :
          /\ c1 # c2
          /\ cb_pc[c1] = "running" /\ cb_admitted[c1] = CLOSED
          /\ cb_pc[c2] = "running" /\ cb_admitted[c2] = HALF_OPEN


\* C34: the breaker leaves OPEN for CLOSED only through a manual reset or
\* through the success of a trial call admitted as HALF_OPEN; the success of
\* a call admitted while the breaker was CLOSED does not close it.
C34_OnlyTrialOrResetCloses ==
    [][(cb.state \in {OPEN, HALF_OPEN} /\ cb'.state = CLOSED)
       => \/ cb_last'.kind = "reset"
          \/ /\ cb.state = HALF_OPEN
             /\ \E c \in Callers :
                   /\ cb_pc[c] = "running" /\ cb_pc'[c] = "returned"
                   /\ cb_admitted[c] = HALF_OPEN]_vars


C37_TerminalRowsStamped ==
    \A i \in DOMAIN email_logs :
        /\ email_logs[i].status = FAILED
             => /\ email_logs[i].error_message # NoErr
                /\ email_logs[i].failed_at
                /\ email_logs[i].retry_count >= 1
        /\ email_logs[i].status = SENT
             => /\ email_logs[i].sent_at
                /\ email_logs[i].delivered_at


\* C38: every call of process_notification terminates, having made at most
\* 3 attempts in its user-fetch loop (at most 4 User Service requests with
\* the one of check_email_preference), at most 3 template attempts and at
\* most 3 dispatcher invocations.
C38_CallTerminatesWithinBounds ==
    /\ [](\A c \in ApiCalls :
            /\ p_attempt[c] <= 2
            /\ p_pc[c] \in {"user_sleep", "tmpl_sleep"} => p_attempt[c] <= 1
            /\ p_did[c].user <= 4
            /\ p_did[c].template <= 3
            /\ p_did[c].dispatch <= 3)
    /\ \A c \in ApiCalls : InFlight(c) ~> ~InFlight(c)

\* A call has returned after three attempts in the user-fetch loop, the
\* request of check_email_preference and three template attempts.
C38_Witness ==
    \E c \in ApiCalls :
        /\ p_pc[c] = "returned"
        /\ p_did[c].user = 4
        /\ p_did[c].template = 3
        /\ p_attempt[c] = 2


====
